---- MODULE Spec2Model ----
(***************************************************************************)
(* The authentication service (src/api/auth/authService.ts) over the user  *)
(* repository (src/api/user/userRepository.ts).                            *)
(*                                                                         *)
(* Every public operation is an async function: it runs from one await to  *)
(* the next without interruption, and other calls may run in between.      *)
(* A call is a slot of `calls`; one action is one such run.  The user      *)
(* collection is a sequence of documents in natural (insertion) order.     *)
(***************************************************************************)
EXTENDS Naturals, Sequences, FiniteSets, TLC

VARIABLES
    store,      \* the user collection: documents in natural order
    env,        \* process.env: JWT_SECRET and TOKEN_SECRET
    calls,      \* the calls made to the service, by slot
    inflight,   \* documents whose save() was started and has not settled
    unhandled   \* callers whose save() rejected with nobody awaiting it

vars == <<store, env, calls, inflight, unhandled>>

\* Number of calls made to the service in one behaviour.
MaxCalls == 2

\* Number of calls in one behaviour of the registration race (SpecRace).
MaxRaceCalls == 3

Calls == 1..MaxCalls
RaceCalls == 1..MaxRaceCalls

\* ------------------------------------------------------------------ inputs
Emails == {"a@x", "m@x"}
Passwords == {"p1", "p2"}
\* Passwords longer than bcrypt reads: they differ in their 73rd byte only.
Block72 == "aaaaaaaaaaaaaaaaaaaaaaaaaaaaaaaaaaaaaaaaaaaaaaaaaaaaaaaaaaaaaaaaaaaaaaaa"
LongPasswords == {Block72 \o "1", Block72 \o "2"}
\* The passwords of the hashing specification (SpecHash).
HashPasswords == {"p1"} \cup LongPasswords
Names == {"n"}
Salts == {"s1", "s2"}
\* "" stands for a variable that is unset or empty: both are falsy for ||.
EnvValues == {"", "k1"}
\* ids handed to generateRefreshToken: the seeded user's, and one no user has.
UserIds == {0, 9}

StoreError == "store unreachable"
SignError == "secretOrPrivateKey must have a value"

\* ------------------------------------------------------------- status codes
OK == 200
UNPROCESSABLE_ENTITY == 422
INTERNAL_SERVER_ERROR == 500

\* ------------------------------------------------------------------ bcrypt
BcryptRounds == 10

\* bcrypt reads no more than this many bytes of a password.
BcryptMaxBytes == 72

\* The key bcrypt derives from a password: its first 72 bytes (the passwords
\* here are ASCII without NUL, so one character is one byte and two passwords
\* have one key exactly when they agree on those bytes).
Key(password) ==
    IF Len(password) > BcryptMaxBytes
    THEN SubSeq(password, 1, BcryptMaxBytes)
    ELSE password

\* A hash that is the password itself.
hash_Plain(password, salt) == <<password>>

\* bcrypt.hash(password, salt): the text "$2a$10$<salt><digest>" in its parts.
\* The salt and the cost are kept in the hash, the digest is a one-way
\* function of the salt and the key (here the pair, which only `hash` builds
\* and nothing takes apart).
hash(password, salt) == <<"$2a$", BcryptRounds, salt, <<salt, Key(password)>>>>

\* A compare that accepts every password.
compare_Any(password, hashed) == TRUE

\* bcrypt.compare(password, hashed): false for a text that is no bcrypt hash;
\* otherwise hash again under the stored salt, and compare.
compare(password, hashed) ==
    IF Len(hashed) # 4 THEN FALSE ELSE hash(password, hashed[3]) = hashed

\* --------------------------------------------------------------------- jwt
\* a || b on strings.
OrDefault(value, default) == IF value = "" THEN default ELSE value

\* jwt.sign(payload, secret, {expiresIn}): the payload is readable, the
\* signature depends on the payload and the secret.
sign(payload, secret, expiresIn) ==
    [payload |-> payload, expiresIn |-> expiresIn, signedWith |-> secret]

\* jwt.decode(token)
decode(token) == token.payload

LoginSecret == OrDefault(env.JWT_SECRET, "default_secret")
LoginWebSecret == OrDefault(env.TOKEN_SECRET, "default_secret")
RefreshSecret == OrDefault(env.TOKEN_SECRET, "default_secret")

\* ---------------------------------------------------------------- envelope
Undefined == [type |-> "undefined"]

ServiceResponse(status, message, payload, code) ==
    [status |-> status, message |-> message, payload |-> payload, code |-> code]

\* A template literal `${prefix}${cause}`: its parts, in order.
Template(prefix, cause) == <<prefix, cause>>
Text(message) == <<message>>

\* ------------------------------------------------------------------- store
\* The document `new User(userData)` makes: the fields register passes, and
\* the identifier the user model gives every account.
NewUser(userData, id) ==
    [IdUser |-> id, name |-> userData.name, email |-> userData.email,
     password |-> userData.password, Role |-> userData.Role,
     phoneNumber |-> userData.phoneNumber, Date |-> userData.Date,
     Gender |-> userData.Gender, Avatar |-> userData.Avatar,
     age |-> userData.age, IdDoctor |-> userData.IdDoctor]

\* The account the collection holds before the service runs: a manager.
SeedManager ==
    NewUser([name |-> "m", email |-> "m@x", password |-> hash("p1", "s1"),
             Role |-> "client-manager", phoneNumber |-> "", Date |-> "",
             Gender |-> "", Avatar |-> "", age |-> "", IdDoctor |-> ""], 0)

Matching(docs, email) == {i \in 1..Len(docs) : docs[i].email = email}

Min(S) == CHOOSE i \in S : \A j \in S : i <= j

\* User.findOne({email}): the first matching document in natural order, as a
\* sequence of length 0 (null) or 1.
findOne(docs, email) ==
    IF Matching(docs, email) = {} THEN <<>>
    ELSE <<docs[Min(Matching(docs, email))]>>

findByEmailAsync(email) == findOne(store, email)

\* ------------------------------------------------------------------- calls
\* A slot no call has taken. Beside the call's arguments and locals it keeps
\* what the call did: after (the registrations that had returned Success when
\* it was made),
\* reads (its find calls), seenLen (the length of the collection when its
\* lookup ran), faulted (a store or signing call of its failed), logged (its
\* logger.error entries) and creates (its createUserAsync calls).
Idle ==
    [op |-> "none", pc |-> "idle", name |-> "", email |-> "", password |-> "",
     confirmPassword |-> "", userId |-> 0, user |-> <<>>, seenLen |-> 0,
     result |-> [status |-> "none", message |-> <<>>,
                 payload |-> [type |-> "undefined"], code |-> 0],
     after |-> {}, faulted |-> FALSE, logged |-> 0, reads |-> 0, creates |-> 0]

Registered ==
    {d \in DOMAIN calls : /\ calls[d].op = "register"
                          /\ calls[d].pc = "done"
                          /\ calls[d].result.status = "Success"}

\* Slots are taken in order.
CanInvoke(c) ==
    /\ calls[c].op = "none"
    /\ IF c = 1 THEN TRUE ELSE calls[c - 1].op # "none"

\* The call as it is made.
Request(op, name, email, password, confirmPassword, userId) ==
    [Idle EXCEPT !.op = op, !.name = name, !.email = email,
                 !.password = password, !.confirmPassword = confirmPassword,
                 !.userId = userId, !.after = Registered]

\* The call with its find call made.
Lookup(call) == [call EXCEPT !.reads = @ + 1, !.seenLen = Len(store)]

At(c, op, pc) == calls[c].op = op /\ calls[c].pc = pc

\* return new ServiceResponse(...)
Return(c, call, response) ==
    calls' = [calls EXCEPT ![c] = [call EXCEPT !.pc = "done", !.result = response]]

\* The run ends at an await: the call goes on at `pc` when it is resumed.
Continue(c, call, pc) ==
    calls' = [calls EXCEPT ![c] = [call EXCEPT !.pc = pc]]

\* A catch that returns Failed/500 and logs nothing.
Catch_Silent(c, call, prefix, cause) ==
    calls' = [calls EXCEPT ![c] =
        [call EXCEPT !.pc = "done", !.faulted = TRUE,
                     !.result = ServiceResponse("Failed", Template(prefix, cause),
                                                Undefined, INTERNAL_SERVER_ERROR)]]

\* catch (ex) { logger.error(errorMessage); return Failed/500 }
Catch(c, call, prefix, cause) ==
    calls' = [calls EXCEPT ![c] =
        [call EXCEPT !.pc = "done", !.faulted = TRUE, !.logged = @ + 1,
                     !.result = ServiceResponse("Failed", Template(prefix, cause),
                                                Undefined, INTERNAL_SERVER_ERROR)]]

\* -------------------------------------------------------------------- login
\* if (!user) return ...
login_NoUser ==
    ServiceResponse("Failed", Text("Email or Password is not correct"), Undefined,
                    UNPROCESSABLE_ENTITY)

\* A message that tells the wrong password from the unknown email.
login_WrongPassword_Telling ==
    ServiceResponse("Failed", Text("Password is not correct"), Undefined,
                    UNPROCESSABLE_ENTITY)

\* if (!checkPassword) return ...
login_WrongPassword ==
    ServiceResponse("Failed", Text("Email or Password is not correct"), Undefined,
                    UNPROCESSABLE_ENTITY)

\* Lines 13-24: the call, up to the end of the run that follows the lookup.
login(c, email, password) ==
    /\ CanInvoke(c)
    /\ UNCHANGED <<store, env, inflight, unhandled>>
    /\ LET request == Lookup(Request("login", "", email, password, "", 0))
           user == findByEmailAsync(email)
       IN  \/ Catch(c, request, "Error during login: ", StoreError)
           \/ IF user = <<>>
              THEN Return(c, request, login_NoUser)
              ELSE Continue(c, [request EXCEPT !.user = user], "compare")

\* A refresh token made for another account.
login_Tokens_OtherId(user) ==
    [token |-> sign([id |-> user.IdUser], LoginSecret, "1d"),
     refreshToken |-> sign([id |-> user.IdUser + 1], LoginSecret, "2d")]

login_Tokens(user) ==
    LET payload == [id |-> user.IdUser]
    IN  [token |-> sign(payload, LoginSecret, "1d"),
         refreshToken |-> sign(payload, LoginSecret, "2d")]

login_Success(user) ==
    ServiceResponse("Success", Text("Login successfully"), login_Tokens(user), OK)

\* Lines 26-49.
login_compare(c) ==
    /\ At(c, "login", "compare")
    /\ UNCHANGED <<store, env, inflight, unhandled>>
    /\ LET user == calls[c].user[1]
           checkPassword == compare(calls[c].password, user.password)
       IN  IF ~checkPassword
           THEN Return(c, calls[c], login_WrongPassword)
           ELSE \/ Return(c, calls[c], login_Success(user))
                \/ Catch(c, calls[c], "Error during login: ", SignError)

\* ----------------------------------------------------------------- loginWeb
loginWeb_NoUser ==
    ServiceResponse("Failed", Text("Email or Password is not correct"), Undefined,
                    UNPROCESSABLE_ENTITY)

loginWeb_WrongRole ==
    ServiceResponse("Failed", Text("Email or Password is not correct"), Undefined,
                    UNPROCESSABLE_ENTITY)

loginWeb_WrongPassword ==
    ServiceResponse("Failed", Text("Email or Password is not correct"), Undefined,
                    UNPROCESSABLE_ENTITY)

\* No role gate.
loginWeb_RoleRefused_Never(user) == FALSE

\* user.Role !== 'client-manager'
loginWeb_RoleRefused(user) == user.Role # "client-manager"

\* Lines 62-81.
loginWeb(c, email, password) ==
    /\ CanInvoke(c)
    /\ UNCHANGED <<store, env, inflight, unhandled>>
    /\ LET request == Lookup(Request("loginWeb", "", email, password, "", 0))
           user == findOne(store, email)
       IN  \/ Catch(c, request, "Error during login: ", StoreError)
           \/ IF user = <<>>
              THEN Return(c, request, loginWeb_NoUser)
              ELSE IF loginWeb_RoleRefused(user[1])
              THEN Return(c, [request EXCEPT !.user = user], loginWeb_WrongRole)
              ELSE Continue(c, [request EXCEPT !.user = user], "compare")

loginWeb_Tokens(user) ==
    [token |-> sign([id |-> user.IdUser], LoginWebSecret, "1d"),
     refreshToken |-> sign([id |-> user.IdUser], LoginWebSecret, "2d")]

loginWeb_Success(user) ==
    ServiceResponse("Success", Text("Login successfully"), loginWeb_Tokens(user), OK)

\* Lines 83-105.
loginWeb_compare(c) ==
    /\ At(c, "loginWeb", "compare")
    /\ UNCHANGED <<store, env, inflight, unhandled>>
    /\ LET user == calls[c].user[1]
           validPass == compare(calls[c].password, user.password)
       IN  IF ~validPass
           THEN Return(c, calls[c], loginWeb_WrongPassword)
           ELSE \/ Return(c, calls[c], loginWeb_Success(user))
                \/ Catch(c, calls[c], "Error during login: ", SignError)

\* ----------------------------------------------------------------- register
\* A refusal that carries what the lookup found.
register_EmailInUse_Echo ==
    ServiceResponse("Failed", Text("Email is already in use"),
                    [isExited |-> TRUE], UNPROCESSABLE_ENTITY)

register_EmailInUse ==
    ServiceResponse("Failed", Text("Email is already in use"), Undefined,
                    UNPROCESSABLE_ENTITY)

register_Mismatch ==
    ServiceResponse("Failed", Text("Passwords do not match"), Undefined,
                    UNPROCESSABLE_ENTITY)

\* The confirmation is not checked.
register_Validate_NoConfirm(checkEmailExist, password, confirmPassword) ==
    IF checkEmailExist # <<>> THEN <<register_EmailInUse>> ELSE <<>>

\* The confirmation is checked before the existence of the email.
register_Validate_ConfirmFirst(checkEmailExist, password, confirmPassword) ==
    IF password # confirmPassword THEN <<register_Mismatch>>
    ELSE IF checkEmailExist # <<>> THEN <<register_EmailInUse>>
    ELSE <<>>

\* The outcome of lines 124-140 for what the lookup gave: the response to
\* return, or none (an empty sequence) to go on to hashing.
register_Validate(checkEmailExist, password, confirmPassword) ==
    IF checkEmailExist # <<>> THEN <<register_EmailInUse>>
    ELSE IF password # confirmPassword THEN <<register_Mismatch>>
    ELSE <<>>

\* Lines 118-140.
register(c, name, email, password, confirmPassword) ==
    /\ CanInvoke(c)
    /\ UNCHANGED <<store, env, inflight, unhandled>>
    /\ LET checkEmailExist == findByEmailAsync(email)
           request == Lookup(Request("register", name, email, password, confirmPassword, 0))
           refusal == register_Validate(checkEmailExist, password, confirmPassword)
       IN  \/ Catch(c, request, "Error during registration: ", StoreError)
           \/ IF refusal # <<>>
              THEN Return(c, [request EXCEPT !.user = checkEmailExist], refusal[1])
              ELSE Continue(c, request, "hash")

\* A registration that makes managers.
register_UserData_Manager(name, email, hashPassword) ==
    [name |-> name, email |-> email, password |-> hashPassword,
     Role |-> "client-manager", phoneNumber |-> "", Date |-> "", Gender |-> "",
     Avatar |-> "", age |-> "", IdDoctor |-> ""]

\* The userData register hands to createUserAsync (the two dates left out).
register_UserData(name, email, hashPassword) ==
    [name |-> name, email |-> email, password |-> hashPassword,
     Role |-> "client-user", phoneNumber |-> "", Date |-> "", Gender |-> "",
     Avatar |-> "", age |-> "", IdDoctor |-> ""]

\* A create that looks the email up again and inserts in one step.
createUserAsync_Unique(userData, id) ==
    inflight' =
        IF \/ Matching(store, userData.email) # {}
           \/ \E doc \in inflight : doc.email = userData.email
        THEN inflight
        ELSE inflight \cup {NewUser(userData, id)}

\* A create that saves the document and, as a retry, a later copy of it.
createUserAsync_Twice(userData, id) ==
    inflight' = inflight \cup {NewUser(userData, id),
                               NewUser([userData EXCEPT !.Date = "retry"], id)}

\* userRepository.createUserAsync(userData): new User(userData), then save()
\* is started; the promise it returns settles later (save_resolve, save_reject).
createUserAsync(userData, id) ==
    inflight' = inflight \cup {NewUser(userData, id)}

\* The payload of register's Success: the promise createUserAsync returned.
register_Success(newUser) ==
    ServiceResponse("Success", Text("User registered successfully"), newUser, OK)

\* Lines 142-163: genSalt, hash, then createUserAsync is called and, with no
\* await, its pending promise is returned as the payload of Success.
register_hash(c) ==
    /\ At(c, "register", "hash")
    /\ \E salt \in Salts :
          LET hashPassword == hash(calls[c].password, salt)
          IN  /\ createUserAsync(register_UserData(calls[c].name, calls[c].email,
                                                   hashPassword), c)
              /\ Return(c, [calls[c] EXCEPT !.creates = @ + 1],
                        register_Success([promise |-> c]))
    /\ UNCHANGED <<store, env, unhandled>>

\* newUser.save() resolves: the document is in the collection.
save_resolve(doc) ==
    /\ doc \in inflight
    /\ store' = Append(store, doc)
    /\ inflight' = inflight \ {doc}
    /\ UNCHANGED <<env, calls, unhandled>>

\* newUser.save() rejects (a store error, or new User / validation threw):
\* register has returned already and nothing awaits the promise.
save_reject(doc) ==
    /\ doc \in inflight
    /\ inflight' = inflight \ {doc}
    /\ unhandled' = unhandled \cup {doc.IdUser}
    /\ calls' = [calls EXCEPT ![doc.IdUser].faulted = TRUE]
    /\ UNCHANGED <<store, env>>

\* ---------------------------------------------------------- checkEmailExist
checkEmailExist_Found ==
    ServiceResponse("Success", Text("Email exists"), [isExited |-> TRUE], OK)

\* A miss reported as a refusal.
checkEmailExist_NotFound_Refused ==
    ServiceResponse("Failed", Text("Email does not exist"), Undefined,
                    UNPROCESSABLE_ENTITY)

checkEmailExist_NotFound ==
    ServiceResponse("Success", Text("Email does not exist"), [isExited |-> FALSE], OK)

\* Lines 177-205.
checkEmailExist(c, email) ==
    /\ CanInvoke(c)
    /\ UNCHANGED <<store, env, inflight, unhandled>>
    /\ LET found == findOne(store, email)
           request == Lookup(Request("checkEmailExist", "", email, "", "", 0))
       IN  \/ Catch(c, request, "Error checking email existence: ", StoreError)
           \/ IF found # <<>>
              THEN Return(c, [request EXCEPT !.user = found], checkEmailExist_Found)
              ELSE Return(c, request, checkEmailExist_NotFound)

\* ----------------------------------------------------- generateRefreshToken
generateRefreshToken_Token(userId) ==
    sign([userId |-> userId], RefreshSecret, "7d")

\* A refresh token only for an id some user has.
generateRefreshToken_Success_Known(userId) ==
    IF \E i \in 1..Len(store) : store[i].IdUser = userId
    THEN ServiceResponse("Success", Text("Refresh token generated successfully"),
                         [refreshToken |-> generateRefreshToken_Token(userId)], OK)
    ELSE ServiceResponse("Failed", Text("User not found"), Undefined,
                         UNPROCESSABLE_ENTITY)

generateRefreshToken_Success(userId) ==
    ServiceResponse("Success", Text("Refresh token generated successfully"),
                    [refreshToken |-> generateRefreshToken_Token(userId)], OK)

\* Lines 207-226. No await: the call runs to its return in one step.
generateRefreshToken(c, userId) ==
    /\ CanInvoke(c)
    /\ UNCHANGED <<store, env, inflight, unhandled>>
    /\ LET request == Request("generateRefreshToken", "", "", "", "", userId)
       IN  \/ Return(c, request, generateRefreshToken_Success(userId))
           \/ Catch(c, request, "Error generating refresh token: ", SignError)

\* ------------------------------------------------------------ specification
Init ==
    /\ store = <<SeedManager>>
    /\ env \in [{"JWT_SECRET", "TOKEN_SECRET"} -> EnvValues]
    /\ calls = [c \in Calls |-> Idle]
    /\ inflight = {}
    /\ unhandled = {}

Next ==
    \/ \E c \in Calls :
        \/ \E email \in Emails, password \in Passwords : login(c, email, password)
        \/ login_compare(c)
        \/ \E email \in Emails, password \in Passwords : loginWeb(c, email, password)
        \/ loginWeb_compare(c)
        \/ \E name \in Names, email \in Emails, password \in Passwords,
              confirmPassword \in Passwords :
              register(c, name, email, password, confirmPassword)
        \/ register_hash(c)
        \/ \E email \in Emails : checkEmailExist(c, email)
        \/ \E userId \in UserIds : generateRefreshToken(c, userId)
    \/ \E doc \in inflight : save_resolve(doc)
    \/ \E doc \in inflight : save_reject(doc)

Spec == Init /\ [][Next]_vars

\* Registrations and logins alone: what reaches, and then reads, a collection
\* in which an email is held twice.
InitRace ==
    /\ store = <<SeedManager>>
    /\ env \in [{"JWT_SECRET", "TOKEN_SECRET"} -> EnvValues]
    /\ calls = [c \in RaceCalls |-> Idle]
    /\ inflight = {}
    /\ unhandled = {}

NextRace ==
    \/ \E c \in RaceCalls :
        \/ \E email \in Emails, password \in Passwords : login(c, email, password)
        \/ login_compare(c)
        \/ \E name \in Names, email \in Emails, password \in Passwords,
              confirmPassword \in Passwords :
              register(c, name, email, password, confirmPassword)
        \/ register_hash(c)
    \/ \E doc \in inflight : save_resolve(doc)
    \/ \E doc \in inflight : save_reject(doc)

SpecRace == InitRace /\ [][NextRace]_vars

\* Registrations and logins with passwords short and long.
NextHash ==
    \/ \E c \in Calls :
        \/ \E email \in Emails, password \in HashPasswords :
              login(c, email, password)
        \/ login_compare(c)
        \/ \E name \in Names, email \in Emails, password \in HashPasswords :
              register(c, name, email, password, password)
        \/ register_hash(c)
    \/ \E doc \in inflight : save_resolve(doc)
    \/ \E doc \in inflight : save_reject(doc)

SpecHash == Init /\ [][NextHash]_vars

\* ------------------------------------------------------------------ claims
Done(c) == calls[c].pc = "done"

\* The call ran to its return with no store or signing call of its failing.
Clean(c) == Done(c) /\ ~calls[c].faulted

\* The collection as the call's lookup saw it (documents are only appended).
Seen(c) == SubSeq(store, 1, calls[c].seenLen)

\* The documents the call has put in the collection or has in flight.
CreatedBy(c) ==
    {store[i] : i \in {j \in 1..Len(store) : store[j].IdUser = c}}
        \cup {doc \in inflight : doc.IdUser = c}

Refused(message) ==
    [status |-> "Failed", message |-> <<message>>,
     payload |-> [type |-> "undefined"], code |-> 422]
\* C1 as stated: for every user record in the collection, a login with that
\* record's email and a password that verifies against its hash, with no store
\* or signing fault, returns Success/200 with a token and a refresh token that
\* both carry that record's IdUser.
C1_LoginEveryRecord ==
    \A c \in DOMAIN calls : \A i \in 1..Len(store) :
        ( /\ calls[c].op = "login" /\ Clean(c)
          /\ i <= calls[c].seenLen
          /\ store[i].email = calls[c].email
          /\ compare(calls[c].password, store[i].password) )
        => /\ calls[c].result.status = "Success"
           /\ calls[c].result.code = 200
           /\ decode(calls[c].result.payload.token).id = store[i].IdUser
           /\ decode(calls[c].result.payload.refreshToken).id = store[i].IdUser

\* C1 (amended): the same, for every user record whose email no other record
\* of the collection holds.
C1_LoginUniqueRecord ==
    \A c \in DOMAIN calls : \A i \in 1..Len(store) :
        ( /\ calls[c].op = "login" /\ Clean(c)
          /\ i <= calls[c].seenLen
          /\ store[i].email = calls[c].email
          /\ \A j \in 1..calls[c].seenLen : store[j].email = store[i].email => j = i
          /\ compare(calls[c].password, store[i].password) )
        => /\ calls[c].result.status = "Success"
           /\ calls[c].result.code = 200
           /\ decode(calls[c].result.payload.token).id = store[i].IdUser
           /\ decode(calls[c].result.payload.refreshToken).id = store[i].IdUser

\* A registered user, alone under its email, has logged in with its password.
C1_Witness ==
    \E c \in DOMAIN calls : \E i \in 1..Len(store) :
        /\ calls[c].op = "login" /\ Clean(c)
        /\ i <= calls[c].seenLen
        /\ store[i].email = calls[c].email
        /\ store[i].Role = "client-user"
        /\ \A j \in 1..calls[c].seenLen : store[j].email = store[i].email => j = i
        /\ compare(calls[c].password, store[i].password)
        /\ calls[c].result.status = "Success"

\* C2: a login that found a record and a password that does not verify
\* returns exactly the envelope a login that found no record returns:
\* Failed, 'Email or Password is not correct', 422, no payload.
C2_LoginIndistinguishable ==
    \A c1, c2 \in DOMAIN calls :
        ( /\ calls[c1].op = "login" /\ Clean(c1)
          /\ Matching(Seen(c1), calls[c1].email) # {}
          /\ \A i \in Matching(Seen(c1), calls[c1].email) :
                ~compare(calls[c1].password, store[i].password)
          /\ calls[c2].op = "login" /\ Clean(c2)
          /\ Matching(Seen(c2), calls[c2].email) = {} )
        => /\ calls[c1].result = calls[c2].result
           /\ calls[c1].result = Refused("Email or Password is not correct")

\* One login met a wrong password and another an unknown email.
C2_Witness ==
    \E c1, c2 \in DOMAIN calls :
        /\ calls[c1].op = "login" /\ Clean(c1)
        /\ Matching(Seen(c1), calls[c1].email) # {}
        /\ \A i \in Matching(Seen(c1), calls[c1].email) :
              ~compare(calls[c1].password, store[i].password)
        /\ calls[c2].op = "login" /\ Clean(c2)
        /\ Matching(Seen(c2), calls[c2].email) = {}

\* C3: loginWeb returns Success only for a looked-up user whose role is
\* 'client-manager'; for a user of any other role it returns, whatever the
\* password, the Failed/422 'Email or Password is not correct' envelope that
\* a wrong password and an unknown email get.
C3_LoginWebRoleGate ==
    \A c \in DOMAIN calls :
        (calls[c].op = "loginWeb" /\ Done(c))
        => /\ calls[c].result.status = "Success"
              => (calls[c].user # <<>> /\ calls[c].user[1].Role = "client-manager")
           /\ ( /\ ~calls[c].faulted
                /\ \/ Matching(Seen(c), calls[c].email) = {}
                   \/ calls[c].user[1].Role # "client-manager"
                   \/ ~compare(calls[c].password, calls[c].user[1].password) )
              => calls[c].result = Refused("Email or Password is not correct")

\* A registered (client-user) account was refused by loginWeb with its own
\* email and password.
C3_Witness ==
    \E c \in DOMAIN calls :
        /\ calls[c].op = "loginWeb" /\ Clean(c)
        /\ calls[c].user # <<>>
        /\ calls[c].user[1].Role = "client-user"
        /\ compare(calls[c].password, calls[c].user[1].password)
        /\ calls[c].result = Refused("Email or Password is not correct")
\* C4: of two register calls with the same, until then unused email and
\* matching password and confirmPassword, the second made after the first has
\* returned, the first returns Success and the second Failed/422 'Email is
\* already in use'.
C4_SequentialRegister ==
    \A c1, c2 \in DOMAIN calls :
        ( /\ calls[c1].op = "register" /\ Clean(c1)
          /\ calls[c1].password = calls[c1].confirmPassword
          /\ Matching(Seen(c1), calls[c1].email) = {}
          /\ calls[c2].op = "register" /\ Clean(c2)
          /\ calls[c2].password = calls[c2].confirmPassword
          /\ calls[c2].email = calls[c1].email
          /\ c1 \in calls[c2].after )
        => /\ calls[c1].result.status = "Success"
           /\ calls[c2].result = Refused("Email is already in use")

\* C5: once register has returned Success for an email and a password, every
\* later checkEmailExist of that email returns Success with isExited true,
\* every later login with another password Failed/422 'Email or Password is
\* not correct', and every later login with that password Success/200 with a
\* token pair.
C5_AfterRegister ==
    \A c1, c2 \in DOMAIN calls :
        ( /\ calls[c1].op = "register" /\ Done(c1)
          /\ calls[c1].result.status = "Success"
          /\ c1 \in calls[c2].after
          /\ calls[c2].email = calls[c1].email
          /\ Clean(c2) )
        => /\ calls[c2].op = "checkEmailExist"
              => /\ calls[c2].result.status = "Success"
                 /\ calls[c2].result.payload.isExited = TRUE
           /\ (calls[c2].op = "login" /\ calls[c2].password # calls[c1].password)
              => calls[c2].result = Refused("Email or Password is not correct")
           /\ (calls[c2].op = "login" /\ calls[c2].password = calls[c1].password)
              => /\ calls[c2].result.status = "Success"
                 /\ calls[c2].result.code = 200

\* C6: a call of which a store call or a signing call failed returns Failed
\* with status 500, and the failure does not escape it.
C6_ErrorBoundary ==
    \A c \in DOMAIN calls :
        calls[c].faulted
        => /\ Done(c)
           /\ calls[c].result.status = "Failed"
           /\ calls[c].result.code = 500
           /\ c \notin unhandled

\* C7: nothing makes the existence check and the create of register one step:
\* two registrations of one email with matching passwords, whose lookups both
\* found no record, both return Success, and once both saves have resolved the
\* collection holds both documents under that email.
C7_RegisterNotAtomic ==
    \A c1, c2 \in DOMAIN calls :
        ( /\ c1 # c2
          /\ calls[c1].op = "register" /\ Clean(c1)
          /\ calls[c2].op = "register" /\ Clean(c2)
          /\ calls[c1].email = calls[c2].email
          /\ calls[c1].password = calls[c1].confirmPassword
          /\ calls[c2].password = calls[c2].confirmPassword
          /\ Matching(Seen(c1), calls[c1].email) = {}
          /\ Matching(Seen(c2), calls[c2].email) = {} )
        => /\ calls[c1].result.status = "Success"
           /\ calls[c2].result.status = "Success"
           /\ (\A doc \in inflight : doc.IdUser \notin {c1, c2})
              => \E i, j \in Matching(store, calls[c1].email) :
                    store[i].IdUser = c1 /\ store[j].IdUser = c2

\* Two registrations of one email ran concurrently (neither had returned when
\* the other was made), both returned Success, and the collection holds two
\* documents with that email.
C7_Witness ==
    \E c1, c2 \in DOMAIN calls :
        /\ c1 # c2
        /\ calls[c1].op = "register" /\ calls[c2].op = "register"
        /\ calls[c1].email = calls[c2].email
        /\ c1 \notin calls[c2].after /\ c2 \notin calls[c1].after
        /\ Clean(c1) /\ calls[c1].result.status = "Success"
        /\ Clean(c2) /\ calls[c2].result.status = "Success"
        /\ Cardinality(Matching(store, calls[c1].email)) = 2

\* C8: a register whose lookup found no record of the email and whose password
\* differs from confirmPassword returns Failed/422 'Passwords do not match',
\* and has made no create call: no document of its making is in the collection
\* or on its way there.
C8_MismatchNoMutation ==
    \A c \in DOMAIN calls :
        ( /\ calls[c].op = "register" /\ calls[c].pc # "idle"
          /\ calls[c].reads = 1 /\ ~calls[c].faulted
          /\ Matching(Seen(c), calls[c].email) = {}
          /\ calls[c].password # calls[c].confirmPassword )
        => /\ Done(c)
           /\ calls[c].result = Refused("Passwords do not match")
           /\ calls[c].creates = 0
           /\ CreatedBy(c) = {}
           /\ c \notin unhandled

\* A register with an unused email and a differing confirmation has returned.
C8_Witness ==
    \E c \in DOMAIN calls :
        /\ calls[c].op = "register" /\ Clean(c)
        /\ Matching(Seen(c), calls[c].email) = {}
        /\ calls[c].password # calls[c].confirmPassword
        /\ calls[c].result = Refused("Passwords do not match")

\* C9: a register whose lookup ran when a record of the email existed returns
\* Failed/422 'Email is already in use', whether or not password equals
\* confirmPassword, and so never 'Passwords do not match'.
C9_ExistenceFirst ==
    \A c \in DOMAIN calls :
        ( /\ calls[c].op = "register" /\ Clean(c)
          /\ Matching(Seen(c), calls[c].email) # {} )
        => /\ calls[c].result = Refused("Email is already in use")
           /\ calls[c].result.message # <<"Passwords do not match">>

\* A register of an email in use, with a differing confirmation, has returned.
C9_Witness ==
    \E c \in DOMAIN calls :
        /\ calls[c].op = "register" /\ Clean(c)
        /\ Matching(Seen(c), calls[c].email) # {}
        /\ calls[c].password # calls[c].confirmPassword
        /\ calls[c].result = Refused("Email is already in use")

\* C10: generateRefreshToken(id), when signing does not fail, returns
\* Success/200 with a refresh token whose payload's userId is id, for an id no
\* user has as for one a user has; it makes no find call and no create call.
C10_RefreshToken ==
    \A c \in DOMAIN calls :
        calls[c].op = "generateRefreshToken"
        => /\ Done(c)
           /\ calls[c].reads = 0
           /\ calls[c].creates = 0
           /\ CreatedBy(c) = {}
           /\ ~calls[c].faulted
              => /\ calls[c].result.status = "Success"
                 /\ calls[c].result.code = 200
                 /\ decode(calls[c].result.payload.refreshToken).userId
                        = calls[c].userId

\* A refresh token was issued for an id that no user of the collection has.
C10_Witness ==
    \E c \in DOMAIN calls :
        /\ calls[c].op = "generateRefreshToken" /\ Clean(c)
        /\ \A i \in 1..Len(store) : store[i].IdUser # calls[c].userId
        /\ calls[c].result.status = "Success"
        /\ decode(calls[c].result.payload.refreshToken).userId = calls[c].userId

\* C11: the refresh token generateRefreshToken issues is signed with the
\* secret login signs with (JWT_SECRET or its default), and not with the
\* secret of loginWeb (TOKEN_SECRET or its default).
C11_RefreshPrimarySecret ==
    \A c \in DOMAIN calls :
        ( /\ calls[c].op = "generateRefreshToken" /\ Clean(c)
          /\ LoginSecret # LoginWebSecret )
        => /\ calls[c].result.payload.refreshToken.signedWith = LoginSecret
           /\ calls[c].result.payload.refreshToken.signedWith # LoginWebSecret

\* C12: every envelope an operation has returned is a Failed one with no
\* payload and code 422 or 500, or a Success one with code 200.
C12_Envelope ==
    \A c \in DOMAIN calls :
        Done(c)
        => /\ calls[c].result.status \in {"Failed", "Success"}
           /\ calls[c].result.status = "Failed"
              => /\ calls[c].result.payload = Undefined
                 /\ calls[c].result.code \in {422, 500}
           /\ calls[c].result.status = "Success"
              => calls[c].result.code = 200

\* One call has returned a Failed envelope and another a Success envelope.
C12_Witness ==
    \E c1, c2 \in DOMAIN calls :
        /\ Done(c1) /\ calls[c1].result.status = "Failed"
        /\ calls[c1].result.payload = Undefined
        /\ Done(c2) /\ calls[c2].result.status = "Success"
        /\ calls[c2].result.code = 200

\* C13: checkEmailExist returns Success/200 with isExited true exactly when
\* the collection held a record of the email when the lookup ran, and with
\* isExited false otherwise; it returns Failed (with 500) only when the lookup
\* itself failed; and it makes no create call, so that no document of its
\* making is in the collection or on its way there.
C13_CheckEmailExist ==
    \A c \in DOMAIN calls :
        calls[c].op = "checkEmailExist"
        => /\ Done(c)
           /\ calls[c].creates = 0
           /\ CreatedBy(c) = {}
           /\ c \notin unhandled
           /\ ~calls[c].faulted
              => /\ calls[c].result.status = "Success"
                 /\ calls[c].result.code = 200
                 /\ calls[c].result.payload.isExited
                        = (Matching(Seen(c), calls[c].email) # {})
           /\ calls[c].result.status = "Failed"
              => /\ calls[c].faulted
                 /\ calls[c].result.code = 500

\* One probe found the email it asked for and another did not.
C13_Witness ==
    \E c1, c2 \in DOMAIN calls :
        /\ calls[c1].op = "checkEmailExist" /\ Clean(c1)
        /\ Matching(Seen(c1), calls[c1].email) # {}
        /\ calls[c1].result.payload.isExited = TRUE
        /\ calls[c2].op = "checkEmailExist" /\ Clean(c2)
        /\ Matching(Seen(c2), calls[c2].email) = {}
        /\ calls[c2].result.payload.isExited = FALSE

\* The calls that are registrations: the documents register creates carry the
\* identifier of the call that made them.
ByRegister == {d \in DOMAIN calls : calls[d].op = "register"}

\* C14: every document register has created, stored or on its way to the
\* collection, has Role 'client-user'; no operation has changed a stored
\* role (the seeded manager is still the manager it was, and every other
\* document is one register created); and loginWeb has returned Success for
\* no account that register created.
C14_RoleFixed ==
    /\ \A doc \in inflight : doc.IdUser \in ByRegister /\ doc.Role = "client-user"
    /\ Len(store) >= 1 /\ store[1] = SeedManager
    /\ \A i \in 2..Len(store) :
          store[i].IdUser \in ByRegister /\ store[i].Role = "client-user"
    /\ \A c \in DOMAIN calls :
          (calls[c].op = "loginWeb" /\ Done(c) /\ calls[c].result.status = "Success")
          => /\ calls[c].user[1].IdUser \notin ByRegister
             /\ decode(calls[c].result.payload.token).id \notin ByRegister

\* loginWeb was called with the email and the password of an account that
\* register had created and the collection held, and did not return Success.
C14_Witness ==
    \E c \in DOMAIN calls, i \in 1..Len(store) :
        /\ store[i].IdUser \in ByRegister
        /\ calls[c].op = "loginWeb" /\ Clean(c)
        /\ calls[c].user = <<store[i]>>
        /\ calls[c].password = calls[store[i].IdUser].password
        /\ calls[c].result.status = "Failed"

\* C15: a call makes at most one create call, and no more documents are of
\* its making than create calls it made; login, loginWeb, checkEmailExist and
\* generateRefreshToken make none, and no document of the collection is of
\* their making; a register that returned Success made exactly one, and a
\* register that returned Failed made none.
C15_OneMutation ==
    /\ \A i \in 2..Len(store) : store[i].IdUser \in ByRegister
    /\ \A c \in DOMAIN calls :
          /\ calls[c].creates <= 1
          /\ Cardinality(CreatedBy(c)) <= calls[c].creates
          /\ calls[c].op \in {"login", "loginWeb", "checkEmailExist",
                              "generateRefreshToken"}
             => /\ calls[c].creates = 0
                /\ c \notin unhandled
          /\ (calls[c].op = "register" /\ Done(c))
             => /\ calls[c].result.status = "Success" => calls[c].creates = 1
                /\ calls[c].result.status = "Failed"
                   => (calls[c].creates = 0 /\ c \notin unhandled)

\* One register returned Success and its one document is in the collection;
\* another returned Failed and made none.
C15_Witness ==
    \E c1, c2 \in DOMAIN calls :
        /\ calls[c1].op = "register" /\ Clean(c1)
        /\ calls[c1].result.status = "Success"
        /\ calls[c1].creates = 1
        /\ \E i \in 1..Len(store) : CreatedBy(c1) = {store[i]}
        /\ calls[c2].op = "register" /\ Done(c2)
        /\ calls[c2].result.status = "Failed"
        /\ calls[c2].creates = 0

\* The documents register has created, stored or on their way.
RegisteredDocs ==
    {store[i] : i \in {j \in 1..Len(store) : store[j].IdUser \in ByRegister}}
        \cup inflight

\* C16 as stated: the password field of a document register created never
\* holds the submitted password, the submitted password verifies against it,
\* and every other string fails to: a login that found the document with any
\* other password is refused.
C16_OnlyThePassword ==
    /\ \A doc \in RegisteredDocs :
          LET submitted == calls[doc.IdUser].password
          IN  /\ doc.password # Text(submitted)
              /\ compare(submitted, doc.password)
              /\ \A other \in (Passwords \cup HashPasswords) \ {submitted} :
                    ~compare(other, doc.password)
    /\ \A c \in DOMAIN calls :
          ( /\ calls[c].op = "login" /\ Clean(c)
            /\ calls[c].user # <<>>
            /\ calls[c].user[1].IdUser \in ByRegister
            /\ calls[c].password # calls[calls[c].user[1].IdUser].password )
          => calls[c].result = Refused("Email or Password is not correct")

\* C16: the password field of a document register created never holds the
\* submitted password, the submitted password verifies against it, and every
\* string from which bcrypt derives another key (one that differs from the
\* submitted password within its first 72 bytes) fails to: a login that found
\* the document with such a password is refused.
C16_OnlyTheKey ==
    /\ \A doc \in RegisteredDocs :
          LET submitted == calls[doc.IdUser].password
          IN  /\ doc.password # Text(submitted)
              /\ compare(submitted, doc.password)
              /\ \A other \in Passwords \cup HashPasswords :
                    Key(other) # Key(submitted) => ~compare(other, doc.password)
    /\ \A c \in DOMAIN calls :
          ( /\ calls[c].op = "login" /\ Clean(c)
            /\ calls[c].user # <<>>
            /\ calls[c].user[1].IdUser \in ByRegister
            /\ Key(calls[c].password)
                   # Key(calls[calls[c].user[1].IdUser].password) )
          => calls[c].result = Refused("Email or Password is not correct")

\* An account was registered with a password longer than bcrypt reads, and a
\* login that found its document with a password of another key was refused.
C16_Witness ==
    \E c \in DOMAIN calls, i \in 1..Len(store) :
        /\ store[i].IdUser \in ByRegister
        /\ calls[store[i].IdUser].password \in LongPasswords
        /\ calls[c].op = "login" /\ Clean(c)
        /\ calls[c].user = <<store[i]>>
        /\ Key(calls[c].password) # Key(calls[store[i].IdUser].password)
        /\ calls[c].result = Refused("Email or Password is not correct")

\* C17: whatever JWT_SECRET and TOKEN_SECRET are, set or unset, no token that
\* login issued is signed with the secret of a token that loginWeb issued.
C17_DistinctSecrets ==
    \A c1, c2 \in DOMAIN calls :
        ( /\ calls[c1].op = "login" /\ Done(c1)
          /\ calls[c1].result.status = "Success"
          /\ calls[c2].op = "loginWeb" /\ Done(c2)
          /\ calls[c2].result.status = "Success" )
        => \A t1 \in {calls[c1].result.payload.token,
                      calls[c1].result.payload.refreshToken},
              t2 \in {calls[c2].result.payload.token,
                      calls[c2].result.payload.refreshToken} :
              t1.signedWith # t2.signedWith

\* C18: a call has written one error log entry when it has returned Failed
\* with 500, and none otherwise: none while it runs, none when it returns
\* Success, and none when it returns one of the Failed/422 refusals.
C18_LoggedOn500 ==
    \A c \in DOMAIN calls :
        /\ calls[c].logged
               = IF Done(c) /\ calls[c].result.status = "Failed"
                            /\ calls[c].result.code = 500
                 THEN 1 ELSE 0
        /\ (Done(c) /\ calls[c].result.code = 422)
           => /\ calls[c].logged = 0
              /\ calls[c].result.message
                     \in {<<"Email or Password is not correct">>,
                          <<"Email is already in use">>,
                          <<"Passwords do not match">>}

\* One call was refused with 422 and logged nothing; another failed with 500
\* and logged one entry.
C18_Witness ==
    \E c1, c2 \in DOMAIN calls :
        /\ Done(c1) /\ calls[c1].result.code = 422 /\ calls[c1].logged = 0
        /\ Done(c2) /\ calls[c2].result.code = 500 /\ calls[c2].logged = 1

\* C19: login and loginWeb have returned Success only where the lookup found
\* a record of the email in the collection and the password, hashed under the
\* salt of that record's hash, gave that hash; the tokens are that record's.
C19_LoginSound ==
    \A c \in DOMAIN calls :
        ( /\ calls[c].op \in {"login", "loginWeb"} /\ Done(c)
          /\ calls[c].result.status = "Success" )
        => /\ Matching(Seen(c), calls[c].email) # {}
           /\ LET found == Seen(c)[Min(Matching(Seen(c), calls[c].email))]
              IN  /\ calls[c].user = <<found>>
                  /\ found.email = calls[c].email
                  /\ Len(found.password) = 4
                  /\ hash(calls[c].password, found.password[3]) = found.password
                  /\ decode(calls[c].result.payload.token).id = found.IdUser
                  /\ decode(calls[c].result.payload.refreshToken).id = found.IdUser

\* login and loginWeb have both returned Success, each for a record it found
\* and a password that verified.
C19_Witness ==
    \E c1, c2 \in DOMAIN calls :
        /\ calls[c1].op = "login" /\ Done(c1)
        /\ calls[c1].result.status = "Success"
        /\ calls[c1].user # <<>>
        /\ compare(calls[c1].password, calls[c1].user[1].password)
        /\ calls[c2].op = "loginWeb" /\ Done(c2)
        /\ calls[c2].result.status = "Success"
        /\ calls[c2].user # <<>>
        /\ compare(calls[c2].password, calls[c2].user[1].password)
====
